---- MODULE Spec2Model ----
(***************************************************************************)
(* Model of the Google Sheets client of expense-tracker-pro                *)
(* (src/src/utils/google-sheets.ts, src/src/types/index.ts): the sheet     *)
(* row codec for Trips, the remote store operations with their awaits as   *)
(* separate steps, the error classification boundary, and the settlement   *)
(* netting described for the balance calculator.                           *)
(*                                                                         *)
(* A JavaScript string is a sequence of one-character strings; the empty   *)
(* string is << >>.  `undefined` is the one-element sequence Undefined,    *)
(* which is no string.  A JSON value is a tagged record: a string          *)
(* [t |-> "str", v |-> chars] or an array [t |-> "arr", v |-> values].     *)
(***************************************************************************)
EXTENDS Integers, Sequences, FiniteSets, TLC

\* ------------------------------------------------------------------ bounds

\* Longest entity list handed to writeTripsToSheet.
MaxTrips == 2
\* Longest raw row list the codec specification starts from.
MaxRows == 2
\* Number of spreadsheets the remote service can hold.
MaxWorkbooks == 1
\* Largest expense amount, and the longest expense list, of the balance runs.
MaxAmount == 2
MaxExpenses == 2

\* ------------------------------------------------------- JavaScript values

Undefined == <<"undefined">>

EmptyStr == << >>

\* JavaScript truthiness of a string-or-undefined value: '' and undefined are falsy.
Truthy(v) == v # Undefined /\ v # EmptyStr

\* a || b on string-or-undefined values.
OrElse(a, b) == IF Truthy(a) THEN a ELSE b

JsStr(s) == [t |-> "str", v |-> s]

JsArr(vs) == [t |-> "arr", v |-> vs]

\* row[i] with JavaScript's 0-based index: undefined past the end of the row.
Cell(row, i) == IF i + 1 <= Len(row) THEN row[i + 1] ELSE Undefined

\* ------------------------------------------------------------------ JSON

Quote == "\""

Backslash == "\\"

\* The body of a JSON string literal: quote and backslash are escaped.
RECURSIVE EscapeChars(_)
EscapeChars(s) ==
    IF s = << >> THEN << >>
    ELSE (IF Head(s) \in {Quote, Backslash} THEN <<Backslash, Head(s)>> ELSE <<Head(s)>>)
         \o EscapeChars(Tail(s))

\* JSON.stringify on strings and (nested) arrays of them.
RECURSIVE JSONStringify(_)
RECURSIVE StringifyElems(_)
StringifyElems(vs) ==
    IF vs = << >> THEN << >>
    ELSE JSONStringify(Head(vs))
         \o (IF Tail(vs) = << >> THEN << >> ELSE <<",">> \o StringifyElems(Tail(vs)))

JSONStringify(v) ==
    IF v.t = "str" THEN <<Quote>> \o EscapeChars(v.v) \o <<Quote>>
    ELSE <<"[">> \o StringifyElems(v.v) \o <<"]">>

ParseFail == [ok |-> FALSE, val |-> JsArr(<< >>), next |-> 0]

\* The characters of a string literal from position i (after the opening quote).
RECURSIVE ParseString(_, _, _)
ParseString(s, i, acc) ==
    IF i > Len(s) THEN ParseFail
    ELSE IF s[i] = Quote THEN [ok |-> TRUE, val |-> JsStr(acc), next |-> i + 1]
    ELSE IF s[i] = Backslash
         THEN IF i + 1 <= Len(s) /\ s[i + 1] \in {Quote, Backslash}
              THEN ParseString(s, i + 2, Append(acc, s[i + 1]))
              ELSE ParseFail
    ELSE ParseString(s, i + 1, Append(acc, s[i]))

RECURSIVE ParseValue(_, _)
RECURSIVE ParseElems(_, _, _)
\* The elements of an array from position i (after "[" or ","), up to its "]".
ParseElems(s, i, acc) ==
    LET r == ParseValue(s, i) IN
    IF ~r.ok \/ r.next > Len(s) THEN ParseFail
    ELSE IF s[r.next] = "," THEN ParseElems(s, r.next + 1, Append(acc, r.val))
    ELSE IF s[r.next] = "]"
         THEN [ok |-> TRUE, val |-> JsArr(Append(acc, r.val)), next |-> r.next + 1]
    ELSE ParseFail

ParseValue(s, i) ==
    IF i > Len(s) THEN ParseFail
    ELSE IF s[i] = Quote THEN ParseString(s, i + 1, << >>)
    ELSE IF s[i] = "["
         THEN IF i + 1 <= Len(s) /\ s[i + 1] = "]"
              THEN [ok |-> TRUE, val |-> JsArr(<< >>), next |-> i + 2]
              ELSE ParseElems(s, i + 1, << >>)
    ELSE ParseFail

\* JSON.parse: ok is FALSE where JSON.parse throws a SyntaxError.
JSONParse(s) ==
    LET r == ParseValue(s, 1) IN
    IF r.ok /\ r.next = Len(s) + 1 THEN [ok |-> TRUE, val |-> r.val]
    ELSE [ok |-> FALSE, val |-> JsArr(<< >>)]

\* ------------------------------------------------------------ error boundary

\* error.status of an error object that carries no status.
NoStatus == 0

\* new Error(message): a plain error has neither code nor status.
PlainError(message) == [message |-> message, code |-> "none", status |-> NoStatus]

GoogleAPIError(message, code, status) == [message |-> message, code |-> code, status |-> status]

handleGoogleAPIError(error) ==
    IF error.status = 401
    THEN GoogleAPIError("Token di accesso scaduto. Effettua nuovamente il login.", "UNAUTHORIZED", 401)
    ELSE IF error.status = 403
    THEN GoogleAPIError("Permessi insufficienti per questa operazione.", "FORBIDDEN", 403)
    ELSE IF error.status = 429
    THEN GoogleAPIError("Troppo richieste API. Riprova tra qualche minuto.", "RATE_LIMITED", 429)
    ELSE GoogleAPIError(IF error.message # "" THEN error.message
                        ELSE "Errore sconosciuto delle API Google", "UNKNOWN", NoStatus)

\* What an operation hands to its caller: a value, or a thrown GoogleAPIError.
Returned(value) == [kind |-> "ok", value |-> value, error |-> PlainError("")]

Thrown(error) == [kind |-> "error", value |-> << >>, error |-> error]

NoResult == [kind |-> "none", value |-> << >>, error |-> PlainError("")]

\* --------------------------------------------------------- sheet row codec

\* A Trip whose optional description is left out carries Undefined there.
MkTrip(id, name, description, people) ==
    [id |-> id, name |-> name, description |-> description,
     startDate |-> <<"1">>, endDate |-> <<"2">>, people |-> people,
     createdBy |-> <<"p">>, createdAt |-> <<"3">>, updatedAt |-> <<"4">>]

\* The row of a trip with the people and createdBy columns in each other's place.
EncodeTripSwapped(trip) ==
    << trip.id,
       trip.name,
       OrElse(trip.description, EmptyStr),
       trip.startDate,
       trip.endDate,
       trip.createdBy,
       JSONStringify(trip.people),
       trip.createdAt,
       trip.updatedAt >>

\* The row writeTripsToSheet builds for one trip.
EncodeTrip(trip) ==
    << trip.id,
       trip.name,
       OrElse(trip.description, EmptyStr),
       trip.startDate,
       trip.endDate,
       JSONStringify(trip.people),
       trip.createdBy,
       trip.createdAt,
       trip.updatedAt >>

\* The rows of a write that also blanks the rows a longer earlier write left.
WriteValuesPadded(trips) ==
    [i \in 1..(MaxTrips + 1) |->
        IF i <= Len(trips) THEN EncodeTrip(trips[i]) ELSE [c \in 1..9 |-> EmptyStr]]

WriteValues(trips) == [i \in 1..Len(trips) |-> EncodeTrip(trips[i])]

\* A row's people cell makes JSON.parse throw.
RowThrows(row) == Truthy(Cell(row, 5)) /\ ~JSONParse(Cell(row, 5)).ok

\* The object readTripsFromSheet maps one row to.
DecodeRow(row) ==
    [id |-> OrElse(Cell(row, 0), EmptyStr),
     name |-> OrElse(Cell(row, 1), EmptyStr),
     description |-> OrElse(Cell(row, 2), EmptyStr),
     startDate |-> OrElse(Cell(row, 3), EmptyStr),
     endDate |-> OrElse(Cell(row, 4), EmptyStr),
     people |-> IF Truthy(Cell(row, 5)) THEN JSONParse(Cell(row, 5)).val ELSE JsArr(<< >>),
     createdBy |-> OrElse(Cell(row, 6), EmptyStr),
     createdAt |-> OrElse(Cell(row, 7), EmptyStr),
     updatedAt |-> OrElse(Cell(row, 8), EmptyStr)]

HasId(trip) == Truthy(trip.id)

\* rows.map(...).filter(trip => trip.id): the map runs over every row first, so
\* a JSON.parse that throws on any row ends the whole read in the catch block.
ReadTripsBody(rows) ==
    IF \E i \in 1..Len(rows) : RowThrows(rows[i])
    THEN Thrown(handleGoogleAPIError(PlainError("SyntaxError: Unexpected token in JSON")))
    ELSE Returned(SelectSeq([i \in 1..Len(rows) |-> DecodeRow(rows[i])], HasId))

\* --------------------------------------------------------- sheets config

SheetKeys == <<"TRIPS", "EXPENSES", "PEOPLE", "SHARED_ACCESS", "SETTINGS">>

SHEET_NAMES ==
    [TRIPS |-> "Trips", EXPENSES |-> "Expenses", PEOPLE |-> "People",
     SHARED_ACCESS |-> "Shared_Access", SETTINGS |-> "Settings"]

SHEET_HEADERS ==
    [TRIPS |-> <<"id", "name", "description", "startDate", "endDate",
                 "people", "createdBy", "createdAt", "updatedAt">>,
     EXPENSES |-> <<"id", "tripId", "description", "amount", "paidBy",
                    "participants", "category", "date", "isSettled",
                    "createdAt", "updatedAt">>,
     PEOPLE |-> <<"id", "name", "email", "avatar", "createdAt">>,
     SHARED_ACCESS |-> <<"tripId", "sharedWith", "permission", "sharedAt", "status">>,
     SETTINGS |-> <<"key", "value", "updatedAt">>]

\* The sheet ids the client assumes: the sheets in the order createUserWorkbook lists them.
SheetIds == 0..4

\* The lookup table of getSheetId: keyed by the sheets' titles.
sheetIdsTable ==
    (SHEET_NAMES.TRIPS :> 0) @@ (SHEET_NAMES.EXPENSES :> 1) @@ (SHEET_NAMES.PEOPLE :> 2)
    @@ (SHEET_NAMES.SHARED_ACCESS :> 3) @@ (SHEET_NAMES.SETTINGS :> 4)

\* sheetIds[sheetName] || 0: a name that is no key of the table gives 0.
getSheetId(sheetName) ==
    IF sheetName \in DOMAIN sheetIdsTable THEN sheetIdsTable[sheetName] ELSE 0

\* The updateCells request initializeSheetHeaders builds from one entry
\* [sheetName, headers] of Object.entries(SHEETS_CONFIG.SHEET_HEADERS).
HeaderRequest(sheetName, headers) ==
    [sheetId |-> getSheetId(sheetName),
     startRowIndex |-> 0, endRowIndex |-> 1,
     startColumnIndex |-> 0, endColumnIndex |-> Len(headers),
     values |-> headers, bold |-> TRUE,
     fields |-> "userEnteredValue,userEnteredFormat"]

HeaderRequests ==
    [i \in 1..Len(SheetKeys) |-> HeaderRequest(SheetKeys[i], SHEET_HEADERS[SheetKeys[i]])]

\* ------------------------------------------------------------ HTTP requests

CreateRequest(userName) ==
    [method |-> "POST", target |-> "spreadsheets", spreadsheetId |-> 0,
     body |-> [title |-> <<"Expense Tracker Pro - ", userName>>,
               sheets |-> [i \in 1..Len(SheetKeys) |-> SHEET_NAMES[SheetKeys[i]]]]]

BatchUpdateRequest(id) ==
    [method |-> "POST", target |-> "spreadsheets/{id}:batchUpdate", spreadsheetId |-> id,
     body |-> HeaderRequests]

ReadRequest(id) ==
    [method |-> "GET", target |-> "spreadsheets/{id}/values/Trips!A2:Z", spreadsheetId |-> id,
     body |-> << >>]

WriteRequest(id, trips) ==
    [method |-> "PUT", target |-> "spreadsheets/{id}/values/Trips!A2:I", spreadsheetId |-> id,
     body |-> WriteValues(trips)]

VerifyRequest(id) ==
    [method |-> "GET", target |-> "spreadsheets/{id}", spreadsheetId |-> id, body |-> << >>]

\* ------------------------------------------------------- the remote service

\* The statuses the service answers with; response.ok is status 200..299.
Statuses == {200, 401, 403, 429, 500}

ResponseOk(status) == status >= 200 /\ status <= 299

WorkbookIds == 1..MaxWorkbooks

BlankHeaders == [sid \in SheetIds |-> << >>]

\* One updateCells request applied to the first rows of a workbook's sheets:
\* the cells of the addressed range are set, the cells right of it are kept.
ApplyUpdateCells(grid, req) ==
    [grid EXCEPT ![req.sheetId] =
        req.values \o SubSeq(@, req.endColumnIndex + 1, Len(@))]

\* A batch is applied request by request, in order.
RECURSIVE ApplyBatch(_, _)
ApplyBatch(grid, requests) ==
    IF requests = << >> THEN grid
    ELSE ApplyBatch(ApplyUpdateCells(grid, Head(requests)), Tail(requests))

\* The rows given are added below the rows the sheet holds (values.append).
PutValuesAppend(stored, values) == stored \o values

\* values.update on a range that starts at row 2: the rows given replace the
\* rows they address, and the rows below them are not touched.
PutValues(stored, values) ==
    values \o SubSeq(stored, Len(values) + 1, Len(stored))

\* values.get leaves out the empty cells at the end of each row.
RECURSIVE TrimRow(_)
TrimRow(row) ==
    IF row # << >> /\ row[Len(row)] = EmptyStr THEN TrimRow(SubSeq(row, 1, Len(row) - 1))
    ELSE row

GetValues(stored) == [i \in 1..Len(stored) |-> TrimRow(stored[i])]

\* ------------------------------------------------------------------ state

Sessions == {"s1"}

\* The browser sessions of the runs in which two of them share a workbook.
RaceSessions == {"s1", "s2"}

VARIABLES
    signedIn,       \* per session: isUserSignedIn() of that browser
    pc,             \* per session: the await the running operation stands at
    op,             \* per session: the operation running
    spreadsheetId,  \* per session: the spreadsheetId argument (or the created id)
    trips,          \* per session: the trips argument of writeTripsToSheet
    accessToken,    \* per session: the operation's const accessToken
    sent,           \* per session: the requests the running operation has issued
    responses,      \* per session: the statuses it has been answered with
    result,         \* per session: what the operation gave its caller
    wbCount,        \* service: spreadsheets created so far (ids 1..wbCount)
    headers,        \* service: per spreadsheet, the first row of each sheet
    rows,           \* service: per spreadsheet, the Trips rows from row 2 on
    cpc, cTrips, cRows, cOut,   \* the codec runs (SpecCodec)
    bpc, expenses, balance, settlements,    \* the balance runs (SpecBalance)
    rpc,            \* per session: where its read-modify-write stands (SpecRace)
    mem             \* per session: the trips collection it holds in memory

clientVars == <<signedIn, pc, op, spreadsheetId, trips, accessToken, sent, responses, result>>

serviceVars == <<wbCount, headers, rows>>

codecVars == <<cpc, cTrips, cRows, cOut>>

balanceVars == <<bpc, expenses, balance, settlements>>

raceVars == <<rpc, mem>>

vars == <<clientVars, serviceVars, codecVars, balanceVars, raceVars>>

\* The trips the sessions write: one without description and people, one with both.
TripA == MkTrip(<<"a">>, <<"n">>, Undefined, JsArr(<< >>))

TripB == MkTrip(<<"b">>, <<"m">>, <<"d">>, JsArr(<<JsStr(<<"p">>), JsStr(<<"q">>)>>))

TripPool == {TripA, TripB}

SeqsUpTo(S, n) == UNION {[1..k -> S] : k \in 0..n}

InitClient ==
    /\ signedIn = [s \in RaceSessions |-> FALSE]
    /\ pc = [s \in RaceSessions |-> "idle"]
    /\ op = [s \in RaceSessions |-> "none"]
    /\ spreadsheetId = [s \in RaceSessions |-> 0]
    /\ trips = [s \in RaceSessions |-> << >>]
    /\ accessToken = [s \in RaceSessions |-> "null"]
    /\ sent = [s \in RaceSessions |-> << >>]
    /\ responses = [s \in RaceSessions |-> << >>]
    /\ result = [s \in RaceSessions |-> NoResult]

InitService ==
    /\ wbCount = 0
    /\ headers = [w \in WorkbookIds |-> BlankHeaders]
    /\ rows = [w \in WorkbookIds |-> << >>]

InitCodecIdle ==
    /\ cpc = "off"
    /\ cTrips = << >>
    /\ cRows = << >>
    /\ cOut = NoResult

\* The people of the trip the balance runs settle, in the order of Trip.people.
People == <<"A", "B", "C">>

InitBalanceIdle ==
    /\ bpc = "off"
    /\ expenses = << >>
    /\ balance = [i \in 1..Len(People) |-> 0]
    /\ settlements = << >>

InitRaceIdle ==
    /\ rpc = [s \in RaceSessions |-> "off"]
    /\ mem = [s \in RaceSessions |-> << >>]

Init == InitClient /\ InitService /\ InitCodecIdle /\ InitBalanceIdle /\ InitRaceIdle

\* getCurrentAccessToken(): null unless the user is signed in.
getCurrentAccessToken(s) == IF signedIn[s] THEN "token" ELSE "null"

TokenMissingError == PlainError("Token di accesso non disponibile")

\* ------------------------------------------------------------ the session

\* signInWithGoogle / signOutFromGoogle: the user signs in or out at any time.
SignIn(s) ==
    /\ ~signedIn[s]
    /\ signedIn' = [signedIn EXCEPT ![s] = TRUE]
    /\ UNCHANGED <<pc, op, spreadsheetId, trips, accessToken, sent, responses, result>>
    /\ UNCHANGED <<serviceVars, codecVars, balanceVars, raceVars>>

SignOut(s) ==
    /\ signedIn[s]
    /\ signedIn' = [signedIn EXCEPT ![s] = FALSE]
    /\ UNCHANGED <<pc, op, spreadsheetId, trips, accessToken, sent, responses, result>>
    /\ UNCHANGED <<serviceVars, codecVars, balanceVars, raceVars>>

\* An operation starts: its arguments and its const accessToken are set.
Begin(s, name, id, ts) ==
    /\ pc[s] = "idle"
    /\ op' = [op EXCEPT ![s] = name]
    /\ spreadsheetId' = [spreadsheetId EXCEPT ![s] = id]
    /\ trips' = [trips EXCEPT ![s] = ts]
    /\ accessToken' = [accessToken EXCEPT ![s] = getCurrentAccessToken(s)]
    /\ responses' = [responses EXCEPT ![s] = << >>]

\* The operation ends in `r`, with no further request.
Finish(s, r) ==
    /\ pc' = [pc EXCEPT ![s] = "done"]
    /\ result' = [result EXCEPT ![s] = r]

\* The operation issues `req` and awaits its response at `at`.
Fetch(s, req, at) ==
    /\ sent' = [sent EXCEPT ![s] = Append(@, req)]
    /\ pc' = [pc EXCEPT ![s] = at]
    /\ result' = [result EXCEPT ![s] = NoResult]

\* The caller takes the result; the session is ready for its next call.
Return(s) ==
    /\ pc[s] = "done"
    /\ pc' = [pc EXCEPT ![s] = "idle"]
    /\ op' = [op EXCEPT ![s] = "none"]
    /\ spreadsheetId' = [spreadsheetId EXCEPT ![s] = 0]
    /\ trips' = [trips EXCEPT ![s] = << >>]
    /\ accessToken' = [accessToken EXCEPT ![s] = "null"]
    /\ sent' = [sent EXCEPT ![s] = << >>]
    /\ responses' = [responses EXCEPT ![s] = << >>]
    /\ result' = [result EXCEPT ![s] = NoResult]
    /\ UNCHANGED <<signedIn, serviceVars, codecVars, balanceVars, raceVars>>

\* The request the session is awaiting the response of.
InFlight(s) == sent[s][Len(sent[s])]

\* The service carries out the request in flight (the answer will be a success).
Serve(s) ==
    LET req == InFlight(s) IN
    IF req = CreateRequest(<<"u">>)
    THEN /\ wbCount < MaxWorkbooks
         /\ wbCount' = wbCount + 1
         /\ UNCHANGED <<headers, rows>>
    ELSE /\ req.spreadsheetId \in 1..wbCount
         /\ headers' = IF req = BatchUpdateRequest(req.spreadsheetId)
                       THEN [headers EXCEPT ![req.spreadsheetId] = ApplyBatch(@, req.body)]
                       ELSE headers
         /\ rows' = IF req.method = "PUT"
                    THEN [rows EXCEPT ![req.spreadsheetId] = PutValues(@, req.body)]
                    ELSE rows
         /\ UNCHANGED wbCount

\* The response with `status` arrives: a success carried the request out.
Answer(s, status) ==
    /\ status \in Statuses
    /\ IF ResponseOk(status) THEN Serve(s) ELSE UNCHANGED serviceVars
    /\ responses' = [responses EXCEPT ![s] = Append(@, status)]

\* What the catch block of initializeSheetHeaders throws for `error`; inside
\* createUserWorkbook the outer catch block classifies it once more.
InitHeadersThrown(s, error) ==
    IF op[s] = "createWorkbook"
    THEN Thrown(handleGoogleAPIError(handleGoogleAPIError(error)))
    ELSE Thrown(handleGoogleAPIError(error))

\* initializeSheetHeaders up to its await, by session s on spreadsheet id.
InitHeadersEnter(s, id) ==
    IF getCurrentAccessToken(s) = "null"
    THEN /\ Finish(s, InitHeadersThrown(s, TokenMissingError))
         /\ UNCHANGED sent
    ELSE Fetch(s, BatchUpdateRequest(id), "initFetch")

\* createUserWorkbook(userName), up to its first await.
CreateUserWorkbookCall(s) ==
    /\ Begin(s, "createWorkbook", 0, << >>)
    /\ IF getCurrentAccessToken(s) = "null"
       THEN /\ Finish(s, Thrown(handleGoogleAPIError(TokenMissingError)))
            /\ UNCHANGED sent
       ELSE Fetch(s, CreateRequest(<<"u">>), "createFetch")
    /\ UNCHANGED <<signedIn, serviceVars, codecVars, balanceVars, raceVars>>

\* createUserWorkbook returning the id right after the creation response.
CreateResponseNoInit(s, status) ==
    /\ pc[s] = "createFetch"
    /\ Answer(s, status)
    /\ Finish(s, IF ~ResponseOk(status)
                 THEN Thrown(handleGoogleAPIError(PlainError("Errore creazione spreadsheet")))
                 ELSE Returned(wbCount + 1))
    /\ spreadsheetId' = [spreadsheetId EXCEPT ![s] = IF ResponseOk(status) THEN wbCount + 1 ELSE @]
    /\ UNCHANGED <<signedIn, op, trips, accessToken, sent, codecVars, balanceVars, raceVars>>

\* createUserWorkbook from the creation response on: the ok check, the new
\* spreadsheet's id, and the call of initializeSheetHeaders up to its await.
CreateResponse(s, status) ==
    /\ pc[s] = "createFetch"
    /\ Answer(s, status)
    /\ IF ~ResponseOk(status)
       THEN /\ Finish(s, Thrown(handleGoogleAPIError(PlainError("Errore creazione spreadsheet"))))
            /\ UNCHANGED <<sent, spreadsheetId>>
       ELSE /\ spreadsheetId' = [spreadsheetId EXCEPT ![s] = wbCount + 1]
            /\ InitHeadersEnter(s, wbCount + 1)
    /\ UNCHANGED <<signedIn, op, trips, accessToken, codecVars, balanceVars, raceVars>>

\* initializeSheetHeaders(spreadsheetId), up to its await.
InitializeSheetHeadersCall(s, id) ==
    /\ Begin(s, "initializeHeaders", id, << >>)
    /\ InitHeadersEnter(s, id)
    /\ UNCHANGED <<signedIn, serviceVars, codecVars, balanceVars, raceVars>>

\* initializeSheetHeaders after its await: the response is not looked at.
\* Inside createUserWorkbook the spreadsheet id is then returned.
InitResponse(s, status) ==
    /\ pc[s] = "initFetch"
    /\ Answer(s, status)
    /\ Finish(s, IF op[s] = "createWorkbook" THEN Returned(spreadsheetId[s])
                 ELSE Returned(Undefined))
    /\ UNCHANGED <<signedIn, op, spreadsheetId, trips, accessToken, sent, codecVars, balanceVars, raceVars>>

\* readTripsFromSheet issuing its request before it looks at the token.
ReadTripsCallNoGuard(s, id) ==
    /\ Begin(s, "readEntities", id, << >>)
    /\ Fetch(s, ReadRequest(id), "readFetch")
    /\ UNCHANGED <<signedIn, serviceVars, codecVars, balanceVars, raceVars>>

\* readTripsFromSheet(spreadsheetId), up to its await.
ReadTripsCall(s, id) ==
    /\ Begin(s, "readEntities", id, << >>)
    /\ IF getCurrentAccessToken(s) = "null"
       THEN /\ Finish(s, Thrown(handleGoogleAPIError(TokenMissingError)))
            /\ UNCHANGED sent
       ELSE Fetch(s, ReadRequest(id), "readFetch")
    /\ UNCHANGED <<signedIn, serviceVars, codecVars, balanceVars, raceVars>>

\* readTripsFromSheet after its await: the ok check, then the rows decoded.
ReadResponse(s, status) ==
    /\ pc[s] = "readFetch"
    /\ Answer(s, status)
    /\ Finish(s, IF ~ResponseOk(status)
                 THEN Thrown(handleGoogleAPIError(PlainError("Errore lettura viaggi")))
                 ELSE ReadTripsBody(GetValues(rows[spreadsheetId[s]])))
    /\ UNCHANGED <<signedIn, op, spreadsheetId, trips, accessToken, sent, codecVars, balanceVars, raceVars>>

\* writeTripsToSheet returning early when there is nothing to write.
WriteTripsCallSkipEmpty(s, id, ts) ==
    /\ Begin(s, "writeEntities", id, ts)
    /\ IF getCurrentAccessToken(s) = "null"
       THEN /\ Finish(s, Thrown(handleGoogleAPIError(TokenMissingError)))
            /\ UNCHANGED sent
       ELSE IF ts = << >>
       THEN /\ Finish(s, Returned(Undefined))
            /\ UNCHANGED sent
       ELSE Fetch(s, WriteRequest(id, ts), "writeFetch")
    /\ UNCHANGED <<signedIn, serviceVars, codecVars, balanceVars, raceVars>>

\* writeTripsToSheet(spreadsheetId, trips), up to its await.
WriteTripsCall(s, id, ts) ==
    /\ Begin(s, "writeEntities", id, ts)
    /\ IF getCurrentAccessToken(s) = "null"
       THEN /\ Finish(s, Thrown(handleGoogleAPIError(TokenMissingError)))
            /\ UNCHANGED sent
       ELSE Fetch(s, WriteRequest(id, ts), "writeFetch")
    /\ UNCHANGED <<signedIn, serviceVars, codecVars, balanceVars, raceVars>>

\* writeTripsToSheet after its await: the response is not looked at.
WriteResponse(s, status) ==
    /\ pc[s] = "writeFetch"
    /\ Answer(s, status)
    /\ Finish(s, Returned(Undefined))
    /\ UNCHANGED <<signedIn, op, spreadsheetId, trips, accessToken, sent, codecVars, balanceVars, raceVars>>

\* verifySpreadsheetAccess(spreadsheetId), up to its await.
VerifyCall(s, id) ==
    /\ Begin(s, "verifyAccess", id, << >>)
    /\ IF getCurrentAccessToken(s) = "null"
       THEN /\ Finish(s, Returned(FALSE))
            /\ UNCHANGED sent
       ELSE Fetch(s, VerifyRequest(id), "verifyFetch")
    /\ UNCHANGED <<signedIn, serviceVars, codecVars, balanceVars, raceVars>>

\* verifySpreadsheetAccess after its await: response.ok is the answer.
VerifyResponse(s, status) ==
    /\ pc[s] = "verifyFetch"
    /\ Answer(s, status)
    /\ Finish(s, Returned(ResponseOk(status)))
    /\ UNCHANGED <<signedIn, op, spreadsheetId, trips, accessToken, sent, codecVars, balanceVars, raceVars>>

FetchPcs == {"createFetch", "initFetch", "readFetch", "writeFetch", "verifyFetch"}

\* fetch rejects (the network fails): the request may or may not have been
\* carried out.  The catch block of the operation takes the TypeError.
FetchRejects(s, carriedOut) ==
    /\ pc[s] \in FetchPcs
    /\ IF carriedOut THEN Serve(s) ELSE UNCHANGED serviceVars
    /\ Finish(s, IF pc[s] = "verifyFetch" THEN Returned(FALSE)
                 ELSE IF pc[s] = "initFetch" THEN InitHeadersThrown(s, PlainError("Failed to fetch"))
                 ELSE Thrown(handleGoogleAPIError(PlainError("Failed to fetch"))))
    /\ UNCHANGED <<signedIn, op, spreadsheetId, trips, accessToken, sent, responses, codecVars, balanceVars, raceVars>>

Next ==
    \E s \in Sessions :
        \/ SignIn(s)
        \/ SignOut(s)
        \/ CreateUserWorkbookCall(s)
        \/ \E st \in Statuses : CreateResponse(s, st)
        \/ \E id \in WorkbookIds : InitializeSheetHeadersCall(s, id)
        \/ \E st \in Statuses : InitResponse(s, st)
        \/ \E id \in WorkbookIds : ReadTripsCall(s, id)
        \/ \E st \in Statuses : ReadResponse(s, st)
        \/ \E id \in WorkbookIds, ts \in SeqsUpTo(TripPool, MaxTrips) : WriteTripsCall(s, id, ts)
        \/ \E st \in Statuses : WriteResponse(s, st)
        \/ \E id \in WorkbookIds : VerifyCall(s, id)
        \/ \E st \in Statuses : VerifyResponse(s, st)
        \/ \E carriedOut \in BOOLEAN : FetchRejects(s, carriedOut)
        \/ Return(s)

Spec == Init /\ [][Next]_vars

\* ------------------------------------------------------------------ claims

PropagatingOps == {"createWorkbook", "initializeHeaders", "readEntities", "writeEntities"}

MutatingOps == {"createWorkbook", "initializeHeaders", "writeEntities"}

CodeOfStatus(status) ==
    IF status = 401 THEN "UNAUTHORIZED" ELSE IF status = 403 THEN "FORBIDDEN" ELSE "RATE_LIMITED"

\* C1 (as claimed): when a call of createWorkbook, initializeHeaders,
\* readEntities or writeEntities was answered with status 401, 403 or 429, the
\* error the caller receives has the code of that status (UNAUTHORIZED,
\* FORBIDDEN, RATE_LIMITED).
C1_StatusDecidesCode ==
    \A s \in Sessions :
        \A i \in 1..Len(responses[s]) :
            ( /\ pc[s] = "done"
              /\ op[s] \in PropagatingOps
              /\ responses[s][i] \in {401, 403, 429}
              /\ result[s].kind = "error" )
            => result[s].error.code = CodeOfStatus(responses[s][i])

\* C2 (as claimed): an operation other than verifyAccess that was answered
\* with a non-success status fails with an error; in particular
\* createWorkbook returns an id only if both of its calls succeeded.
C2_NonSuccessFails ==
    \A s \in Sessions :
        ( /\ pc[s] = "done"
          /\ op[s] \in PropagatingOps
          /\ \E i \in 1..Len(responses[s]) : ~ResponseOk(responses[s][i]) )
        => result[s].kind = "error"

\* C3: an operation called while no access token is available ends without
\* having issued any request: the four propagating operations with an
\* error, verifyAccess with false.
C3_NoTokenNoNetwork ==
    \A s \in Sessions :
        (pc[s] # "idle" /\ accessToken[s] = "null")
        => /\ pc[s] = "done"
           /\ sent[s] = << >>
           /\ responses[s] = << >>
           /\ op[s] \in PropagatingOps => result[s].kind = "error"
           /\ op[s] = "verifyAccess" => result[s] = Returned(FALSE)

C3_Witness ==
    \E s \in Sessions :
        /\ pc[s] = "done"
        /\ accessToken[s] = "null"
        /\ op[s] = "writeEntities"
        /\ trips[s] # << >>
        /\ result[s].kind = "error"

\* The operation of s ran with a token and every request it issued was
\* answered with success.
AllAnsweredOk(s) ==
    /\ pc[s] = "done"
    /\ accessToken[s] = "token"
    /\ Len(responses[s]) = Len(sent[s])
    /\ \A i \in 1..Len(responses[s]) : ResponseOk(responses[s][i])

\* C4 (as claimed): every mutating operation that ran with a valid token and
\* only successful responses has made exactly one network round trip.
C4_OneRoundTripEach ==
    \A s \in Sessions :
        (op[s] \in MutatingOps /\ AllAnsweredOk(s)) => Len(sent[s]) = 1

\* C4 (amended): initializeHeaders and writeEntities make exactly one round
\* trip; createWorkbook makes exactly two when it returns the id, the
\* creation call and then the header batch on the new spreadsheet (and one
\* when it fails because the user signed out before the headers were sent).
C4_RoundTrips ==
    \A s \in Sessions :
        (op[s] \in MutatingOps /\ AllAnsweredOk(s))
        => /\ op[s] \in {"initializeHeaders", "writeEntities"} => Len(sent[s]) = 1
           /\ (op[s] = "createWorkbook" /\ result[s].kind = "ok")
                => /\ Len(sent[s]) = 2
                   /\ sent[s][1].target = "spreadsheets"
                   /\ sent[s][2].target = "spreadsheets/{id}:batchUpdate"
                   /\ sent[s][2].spreadsheetId = result[s].value
           /\ (op[s] = "createWorkbook" /\ result[s].kind = "error") => Len(sent[s]) = 1

C4_Witness ==
    \E s \in Sessions :
        /\ op[s] = "createWorkbook"
        /\ AllAnsweredOk(s)
        /\ result[s].kind = "ok"
        /\ Len(sent[s]) = 2

\* The header list that belongs to the sheet with id sid.
HeadersOfSheet(sid) == SHEET_HEADERS[SheetKeys[sid + 1]]

\* C5 (as claimed): the batch of initializeHeaders holds one update per
\* sheet, the five updates address five distinct sheets, and each update
\* addresses the sheet its header list belongs to.
C5_HeadersAddressOwnSheet ==
    \A s \in Sessions :
        \A i \in 1..Len(sent[s]) :
            sent[s][i].target = "spreadsheets/{id}:batchUpdate"
            => LET batch == sent[s][i].body IN
               /\ Len(batch) = 5
               /\ \A j, k \in 1..Len(batch) : j # k => batch[j].sheetId # batch[k].sheetId
               /\ \A j \in 1..Len(batch) : batch[j].values = HeadersOfSheet(batch[j].sheetId)

\* C8: writeEntities called with an empty list and a valid token has issued
\* exactly one request, a PUT of no rows on the data range of the sheet.
C8_EmptyWriteStillWrites ==
    \A s \in Sessions :
        (pc[s] # "idle" /\ op[s] = "writeEntities" /\ trips[s] = << >> /\ accessToken[s] = "token")
        => /\ Len(sent[s]) = 1
           /\ sent[s][1].method = "PUT"
           /\ sent[s][1].target = "spreadsheets/{id}/values/Trips!A2:I"
           /\ sent[s][1].spreadsheetId = spreadsheetId[s]
           /\ sent[s][1].body = << >>

C8_Witness ==
    \E s \in Sessions :
        /\ pc[s] = "done"
        /\ op[s] = "writeEntities"
        /\ trips[s] = << >>
        /\ accessToken[s] = "token"
        /\ responses[s] = <<200>>
        /\ Len(sent[s]) = 1

\* A trip as it comes back from the sheet: a description left out is ''.
Stored(trip) == [trip EXCEPT !.description = OrElse(@, EmptyStr)]

\* C10: a successful write of m entities on a sheet that holds n > m rows
\* replaces rows 1..m and leaves rows m+1..n as they were, so a read that
\* follows returns the m new entities and then the n-m stale ones.
C10_ShrinkLeavesStaleRows ==
    [][ \A s \in Sessions :
          ( /\ pc[s] = "writeFetch"
            /\ pc'[s] = "done"
            /\ responses'[s] = <<200>>
            /\ Len(trips[s]) < Len(rows[spreadsheetId[s]]) )
          => LET id == spreadsheetId[s]
                 m == Len(trips[s])
                 n == Len(rows[id])
                 before == ReadTripsBody(GetValues(rows[id]))
                 after == ReadTripsBody(GetValues(rows'[id]))
             IN /\ Len(rows'[id]) = n
                /\ \A i \in 1..m : rows'[id][i] = EncodeTrip(trips[s][i])
                /\ \A i \in (m + 1)..n : rows'[id][i] = rows[id][i]
                /\ after.kind = "ok"
                /\ Len(after.value) = n
                /\ \A i \in 1..m : after.value[i] = Stored(trips[s][i])
                /\ \A i \in (m + 1)..n : after.value[i] = before.value[i]
      ]_vars

C10_Witness ==
    \E s \in Sessions :
        /\ pc[s] = "done"
        /\ op[s] = "writeEntities"
        /\ responses[s] = <<200>>
        /\ trips[s] = <<TripB>>
        /\ rows[spreadsheetId[s]] = <<EncodeTrip(TripB), EncodeTrip(TripA)>>

\* ------------------------------------------------------------- codec runs

\* The trips the codec runs encode: with the description left out, empty or
\* given, and with no, one or two people (one id holds a quote character).
CodecTrips ==
    { MkTrip(id, <<"n">>, d, JsArr(ps)) :
        id \in {<<"a">>, <<"b">>},
        d \in {Undefined, EmptyStr, <<"d">>},
        ps \in { << >>, <<JsStr(<<"p">>)>>, <<JsStr(<<"p">>), JsStr(<<"q", Quote>>)>> } }

\* Rows as a user can leave them in the sheet: a row of a trip, a blank row,
\* rows without identifier (with a people cell that is no JSON, or with
\* other cells only), a row with identifier whose people cell is no JSON,
\* and a row that holds an identifier only.
RawRows ==
    { EncodeTrip(TripB),
      << >>,
      <<EmptyStr, <<"n">>, EmptyStr, EmptyStr, EmptyStr, <<"x">>>>,
      <<EmptyStr, <<"n">>>>,
      <<<<"a">>, <<"n">>, EmptyStr, EmptyStr, EmptyStr, <<"[">>>>,
      <<<<"c">>>> }

InitCodec ==
    /\ InitClient
    /\ InitService
    /\ InitBalanceIdle
    /\ InitRaceIdle
    /\ cOut = NoResult
    /\ \/ cpc = "start" /\ cTrips \in SeqsUpTo(CodecTrips, MaxRows) /\ cRows = << >>
       \/ cpc = "fetched" /\ cTrips = << >> /\ cRows \in SeqsUpTo(RawRows, MaxRows) \ {<< >>}

\* writeTripsToSheet builds the rows of the trips.
CodecEncode ==
    /\ cpc = "start"
    /\ cRows' = WriteValues(cTrips)
    /\ cpc' = "encoded"
    /\ UNCHANGED <<cTrips, cOut, clientVars, serviceVars, balanceVars, raceVars>>

\* The rows are put on an empty sheet and fetched back.
CodecStore ==
    /\ cpc = "encoded"
    /\ cRows' = GetValues(PutValues(<< >>, cRows))
    /\ cpc' = "fetched"
    /\ UNCHANGED <<cTrips, cOut, clientVars, serviceVars, balanceVars, raceVars>>

\* readTripsFromSheet decodes the fetched rows.
CodecDecode ==
    /\ cpc = "fetched"
    /\ cOut' = ReadTripsBody(cRows)
    /\ cpc' = "decoded"
    /\ UNCHANGED <<cTrips, cRows, clientVars, serviceVars, balanceVars, raceVars>>

NextCodec == CodecEncode \/ CodecStore \/ CodecDecode

SpecCodec == InitCodec /\ [][NextCodec]_vars

\* C6 (as claimed): decoding the encoded row of a trip gives a trip equal to
\* it in every field, also when the description is left out.
C6_RoundTrip ==
    (cpc = "decoded" /\ cTrips # << >>)
    => /\ cOut.kind = "ok"
       /\ Len(cOut.value) = Len(cTrips)
       /\ \A i \in 1..Len(cTrips) : cOut.value[i] = cTrips[i]

\* C6 (amended): decoding the encoded row of a trip gives the trip with a
\* left-out description replaced by the empty string, and equal to it in
\* every other field; a trip whose description is given (empty or not)
\* comes back equal in every field.
C6_RoundTripStored ==
    (cpc = "decoded" /\ cTrips # << >>)
    => /\ cOut.kind = "ok"
       /\ Len(cOut.value) = Len(cTrips)
       /\ \A i \in 1..Len(cTrips) :
            /\ cOut.value[i] = Stored(cTrips[i])
            /\ cTrips[i].description # Undefined => cOut.value[i] = cTrips[i]
            /\ cTrips[i].description = Undefined => cOut.value[i].description = EmptyStr

C6_Witness ==
    /\ cpc = "decoded"
    /\ Len(cTrips) = 2
    /\ cTrips[1].description = Undefined
    /\ cTrips[1].people = JsArr(<< >>)
    /\ cTrips[2].description = EmptyStr
    /\ Len(cTrips[2].people.v) = 2
    /\ cOut.kind = "ok"

HasIdCell(row) == Truthy(Cell(row, 0))

\* C7 (as claimed): rows whose identifier cell is empty or missing give no
\* entity and no error, whatever their other cells hold: when the rows that
\* do have an identifier decode, the read returns exactly those, decoded,
\* in sheet order.
C7_RowsWithoutIdDropped ==
    ( /\ cpc = "decoded"
      /\ \A i \in 1..Len(cRows) : HasIdCell(cRows[i]) => ~RowThrows(cRows[i]) )
    => LET kept == SelectSeq(cRows, HasIdCell) IN
       /\ cOut.kind = "ok"
       /\ cOut.value = [i \in 1..Len(kept) |-> DecodeRow(kept[i])]

\* ------------------------------------------------------ balance calculator

PersonIdx == 1..Len(People)

\* Amounts are held in units of 1/Scale, so that an equal split among any
\* number of participants is exact.
RECURSIVE Factorial(_)
Factorial(n) == IF n <= 1 THEN 1 ELSE n * Factorial(n - 1)

Scale == Factorial(Len(People))

\* The expenses of the trip: an amount (an expense of nothing changes no
\* balance and is left out), the person who paid, and the people (at least
\* one) who took part.
ExpenseSet ==
    [amount : 1..MaxAmount, paidBy : PersonIdx, participants : (SUBSET PersonIdx) \ {{}}]

RECURSIVE SumOver(_, _)
SumOver(f, S) ==
    IF S = {} THEN 0
    ELSE LET x == CHOOSE y \in S : TRUE IN f[x] + SumOver(f, S \ {x})

\* totalPaid: the full amount of every expense the person paid.
TotalPaid(es, p) ==
    SumOver([i \in 1..Len(es) |-> IF es[i].paidBy = p THEN Scale * es[i].amount ELSE 0],
            1..Len(es))

\* totalOwed with every participant charged the full amount of the expense.
TotalOwedUnsplit(es, p) ==
    SumOver([i \in 1..Len(es) |-> IF p \in es[i].participants THEN Scale * es[i].amount ELSE 0],
            1..Len(es))

\* totalOwed: the person's equal share of every expense they took part in.
TotalOwed(es, p) ==
    SumOver([i \in 1..Len(es) |->
                IF p \in es[i].participants
                THEN (Scale * es[i].amount) \div Cardinality(es[i].participants)
                ELSE 0],
            1..Len(es))

\* balance = totalPaid - totalOwed, per person.
Balances(es) == [p \in PersonIdx |-> TotalPaid(es, p) - TotalOwed(es, p)]

\* The rounding tolerance: exact arithmetic leaves none.
Within(b) == b = 0

\* The largest creditor, the first in the people list among equals.
LargestCreditor(bal) ==
    CHOOSE p \in PersonIdx :
        /\ bal[p] > 0
        /\ \A q \in PersonIdx : bal[q] < bal[p] \/ (bal[q] = bal[p] /\ p <= q)

\* The largest debtor, the first in the people list among equals.
LargestDebtor(bal) ==
    CHOOSE p \in PersonIdx :
        /\ bal[p] < 0
        /\ \A q \in PersonIdx : bal[q] > bal[p] \/ (bal[q] = bal[p] /\ p <= q)

Abs(x) == IF x < 0 THEN -x ELSE x

Min(a, b) == IF a <= b THEN a ELSE b

\* min(|creditor balance|, |debtor balance|)
TransferAmount(bal) == Min(Abs(bal[LargestCreditor(bal)]), Abs(bal[LargestDebtor(bal)]))

InitBalance ==
    /\ InitClient
    /\ InitService
    /\ InitCodecIdle
    /\ InitRaceIdle
    /\ bpc = "start"
    /\ expenses \in SeqsUpTo(ExpenseSet, MaxExpenses)
    /\ balance = [p \in PersonIdx |-> 0]
    /\ settlements = << >>

\* The balances of the trip are computed from its expenses.
ComputeBalances ==
    /\ bpc = "start"
    /\ balance' = Balances(expenses)
    /\ bpc' = "settling"
    /\ UNCHANGED <<expenses, settlements, clientVars, serviceVars, codecVars, raceVars>>

\* One round of the netting loop: the largest debtor pays the largest creditor.
SettleStep ==
    /\ bpc = "settling"
    /\ \E p \in PersonIdx : ~Within(balance[p])
    /\ \E p \in PersonIdx : balance[p] > 0
    /\ \E p \in PersonIdx : balance[p] < 0
    /\ Len(settlements) <= Len(People)      \* cap: a loop that does not converge is cut here
    /\ LET to == LargestCreditor(balance)
           from == LargestDebtor(balance)
           amount == TransferAmount(balance)
       IN /\ balance' = [balance EXCEPT ![to] = @ - amount, ![from] = @ + amount]
          /\ settlements' = Append(settlements, [from |-> from, to |-> to, amount |-> amount])
    /\ UNCHANGED <<bpc, expenses, clientVars, serviceVars, codecVars, raceVars>>

\* The loop ends when every balance is within the tolerance of zero.
SettleDone ==
    /\ bpc = "settling"
    /\ \A p \in PersonIdx : Within(balance[p])
    /\ bpc' = "done"
    /\ UNCHANGED <<expenses, balance, settlements, clientVars, serviceVars, codecVars, raceVars>>

NextBalance == ComputeBalances \/ SettleStep \/ SettleDone

SpecBalance == InitBalance /\ [][NextBalance]_vars

\* The balances after the settlements are applied: the payer's balance goes
\* up by the amount, the receiver's down.
RECURSIVE ApplySettlements(_, _)
ApplySettlements(bal, ss) ==
    IF ss = << >> THEN bal
    ELSE ApplySettlements([bal EXCEPT ![Head(ss).to] = @ - Head(ss).amount,
                                      ![Head(ss).from] = @ + Head(ss).amount], Tail(ss))

\* C9: for the balances of any expense list the netting loop ends (it is
\* never stuck with a balance left, and it makes at most people - 1
\* transfers), and the settlements it produced, applied to the computed
\* balances, bring every balance to zero.
C9_SettlementsZeroBalances ==
    /\ bpc = "settling"
       => /\ Len(settlements) <= Len(People) - 1
          /\ (\A p \in PersonIdx : Within(balance[p]))
             \/ ((\E p \in PersonIdx : balance[p] > 0) /\ (\E p \in PersonIdx : balance[p] < 0))
          /\ (\A p \in PersonIdx : Within(balance[p])) \/ Len(settlements) < Len(People) - 1
    /\ bpc = "done"
       => /\ \A p \in PersonIdx : ApplySettlements(Balances(expenses), settlements)[p] = 0
          /\ \A i \in 1..Len(settlements) : settlements[i].amount > 0

C9_Witness ==
    /\ bpc = "done"
    /\ Len(settlements) = 2
    /\ Balances(expenses)[1] > 0

\* ------------------------------------------- two sessions on one workbook

\* The workbook the two sessions share, created and initialised earlier.
SharedWorkbook == 1

\* A trip the sheet may hold before the sessions start.
TripC == MkTrip(<<"c">>, <<"k">>, <<"d">>, JsArr(<<JsStr(<<"p">>)>>))

\* The trip each session adds to its collection.
NewTrip(s) == IF s = "s1" THEN TripA ELSE TripB

\* Both users are signed in, the workbook exists with its header batch
\* applied, and its Trips sheet is empty or holds one trip.
InitRace ==
    /\ signedIn = [s \in RaceSessions |-> TRUE]
    /\ pc = [s \in RaceSessions |-> "idle"]
    /\ op = [s \in RaceSessions |-> "none"]
    /\ spreadsheetId = [s \in RaceSessions |-> 0]
    /\ trips = [s \in RaceSessions |-> << >>]
    /\ accessToken = [s \in RaceSessions |-> "null"]
    /\ sent = [s \in RaceSessions |-> << >>]
    /\ responses = [s \in RaceSessions |-> << >>]
    /\ result = [s \in RaceSessions |-> NoResult]
    /\ wbCount = SharedWorkbook
    /\ headers = [w \in WorkbookIds |->
                    IF w = SharedWorkbook THEN ApplyBatch(BlankHeaders, HeaderRequests)
                    ELSE BlankHeaders]
    /\ rows \in {[w \in WorkbookIds |-> IF w = SharedWorkbook THEN base ELSE << >>] :
                    base \in {<< >>, <<EncodeTrip(TripC)>>}}
    /\ InitCodecIdle
    /\ InitBalanceIdle
    /\ rpc = [s \in RaceSessions |-> "start"]
    /\ mem = [s \in RaceSessions |-> << >>]

\* The session reads the collection from the sheet.
RaceRead(s) ==
    /\ rpc[s] = "start"
    /\ ReadTripsCall(s, SharedWorkbook)

\* The read has returned the trips: the session keeps them in memory with
\* its new trip added (ADD_TRIP), ready to write the whole collection.
RaceModify(s) ==
    /\ rpc[s] = "start"
    /\ pc[s] = "done"
    /\ op[s] = "readEntities"
    /\ result[s].kind = "ok"
    /\ mem' = [mem EXCEPT ![s] = Append(result[s].value, NewTrip(s))]
    /\ rpc' = [rpc EXCEPT ![s] = "modified"]
    /\ pc' = [pc EXCEPT ![s] = "idle"]
    /\ op' = [op EXCEPT ![s] = "none"]
    /\ spreadsheetId' = [spreadsheetId EXCEPT ![s] = 0]
    /\ trips' = [trips EXCEPT ![s] = << >>]
    /\ accessToken' = [accessToken EXCEPT ![s] = "null"]
    /\ sent' = [sent EXCEPT ![s] = << >>]
    /\ responses' = [responses EXCEPT ![s] = << >>]
    /\ result' = [result EXCEPT ![s] = NoResult]
    /\ UNCHANGED <<signedIn, serviceVars, codecVars, balanceVars>>

\* The session writes its whole collection to the sheet.
RaceWrite(s) ==
    /\ rpc[s] = "modified"
    /\ WriteTripsCall(s, SharedWorkbook, mem[s])

NextRace ==
    \E s \in RaceSessions :
        \/ RaceRead(s)
        \/ \E st \in Statuses : ReadResponse(s, st)
        \/ RaceModify(s)
        \/ RaceWrite(s)
        \/ \E st \in Statuses : WriteResponse(s, st)
        \/ \E carriedOut \in BOOLEAN : FetchRejects(s, carriedOut)

SpecRace == InitRace /\ [][NextRace]_vars

\* The write of session s was answered with success.
WriteSucceeded(s) ==
    /\ pc[s] = "done"
    /\ op[s] = "writeEntities"
    /\ responses[s] = <<200>>

\* The Trips sheet of the shared workbook holds a row of the trip.
InSheet(trip) ==
    \E i \in 1..Len(rows[SharedWorkbook]) : Cell(rows[SharedWorkbook][i], 0) = trip.id

\* C11: once the writes of both sessions have succeeded, neither session
\* has received an error and the sheet holds the rows of one of the two
\* writes only, never a merge of them; when both sessions had read the same
\* rows before either wrote, the trip one of them added is not in the sheet
\* (the update of the earlier writer is lost).
C11_LastWriteWins ==
    (\A s \in RaceSessions : WriteSucceeded(s))
    => /\ \A s \in RaceSessions : result[s].kind = "ok"
       /\ \E s \in RaceSessions : rows[SharedWorkbook] = [i \in 1..Len(mem[s]) |-> EncodeTrip(mem[s][i])]
       /\ Len(mem["s1"]) = Len(mem["s2"])
            => (InSheet(NewTrip("s1")) /\ ~InSheet(NewTrip("s2")))
               \/ (InSheet(NewTrip("s2")) /\ ~InSheet(NewTrip("s1")))

\* Both writes succeeded, neither session has an error, the sheet is the
\* write of s2 and the trip s1 added and wrote is gone.
C11_Witness ==
    /\ \A s \in RaceSessions : WriteSucceeded(s) /\ result[s].kind = "ok"
    /\ mem["s1"] = <<Stored(TripC), TripA>>
    /\ mem["s2"] = <<Stored(TripC), TripB>>
    /\ rows[SharedWorkbook] = <<EncodeTrip(TripC), EncodeTrip(TripB)>>
    /\ ~InSheet(TripA)
====
